---- MODULE Spec2Model ----
(***************************************************************************)
(* A model of the SOLID problem/solution snippets of solid.py and          *)
(* solid/talk.py.  Every snippet is a self-contained example: a client     *)
(* exercises one snippet at a time (variable snippet), constructing its    *)
(* objects and calling its methods.  Method bodies are translated          *)
(* statement by statement; attribute lookup, global-name lookup and        *)
(* exception propagation follow Python's rules.  No snippet has a          *)
(* try/except, so a raised exception always reaches the client.            *)
(*                                                                         *)
(* Collaborators that no snippet defines (HPLASER, HPINKJET, draw_square,  *)
(* draw_circle, the Calculator base class, IOUSB2, IOAPPLE, phone,         *)
(* ReadKeyboard, WritePrinter, WriteDisk) are the tutorial's environment   *)
(* and are modelled as recorders of the calls they receive.                *)
(***************************************************************************)
EXTENDS Integers, Sequences, FiniteSets, TLC

VARIABLES
    snippet,    \* the example the client is exercising
    task,       \* LSP #2: the task object, [version, cls, status]
    taskCall,   \* LSP #2: the last close() call, [done, pre, exc]
    rect,       \* LSP #1: the rectangle object, [cls, width, height]
    stack,      \* LSP #1: the call stack, innermost frame last
    rcall,      \* LSP #1: the client's last call, [fn, arg, done, exc]
    calcCall,   \* OCP #1: the last calculate() call
    devices,    \* OCP #2: what each device has printed, [HPLASER, HPINKJET]
    printCall,  \* OCP #2: the last ReportGenerator.print call
    shapes,     \* OCP #3: the list handed to draw_all_shapes
    loopP3,     \* OCP #3: Problem #3's loop, [i, log]
    loopS3,     \* OCP #3: Solution #3's loop, [i, log]
    point,      \* LSP #3: the point object, [version, cls, x, y, x0, y0]
    pointCall,  \* LSP #3: the client's last method call, [fn, arg, done, exc]
    copy,       \* DIP #1: the running CopyProgram.copy call and the events it caused
    chargeCall  \* ISP #1: the last call on a charger and the connections it made

vars == <<snippet, task, taskCall, rect, stack, rcall, calcCall, devices,
          printCall, shapes, loopP3, loopS3,
        point, pointCall,
          copy,
          chargeCall>>

Snippets == {"LSP1", "LSP2", "OCP1", "OCP2", "OCP3", "LSP3", "DIP1", "ISP1"}

(***************************************************************************)
(* LSP #2: Task / BasicTask / ProjectTask, talk.py 334-370 and            *)
(* solid.py 184-198                                                        *)
(***************************************************************************)

TaskClasses == {"Task", "BasicTask", "ProjectTask"}

\* Problem #2 and Solution #2 of talk.py, and Problem #2 of solid.py
TaskVersions == {"Problem2", "Solution2", "Problem2Solid"}

\* status = None on the class; clients assign the strings the snippets test for
StatusValues == {"None", "OPEN", "STARTED", "CLOSED"}

\* Problem #2, Task.close: self.status = 'CLOSED'
TaskCloseP2(status) == [status |-> "CLOSED", exc |-> "none"]

\* A ProjectTask.close that forgets to call super().close()
ProjectTaskCloseNoSuper(status) ==
    IF status = "STARTED"
    THEN [status |-> status, exc |-> "Exception"]
    ELSE [status |-> status, exc |-> "none"]

\* Problem #2, ProjectTask.close: raise if STARTED, else super().close()
ProjectTaskCloseP2(status) ==
    IF status = "STARTED"
    THEN [status |-> status, exc |-> "Exception"]
    ELSE TaskCloseP2(status)

\* Problem #2, method resolution of close(): only ProjectTask overrides it
CloseP2(cls, status) ==
    IF cls = "ProjectTask" THEN ProjectTaskCloseP2(status) ELSE TaskCloseP2(status)

\* solid.py Problem #2, ProjectTask.close: raise if STARTED and nothing else
\* (the if line lacks its colon; it is read as the if statement it stands
\* for).  There is no super().close().
ProjectTaskCloseSolid(status) ==
    IF status = "STARTED"
    THEN [status |-> status, exc |-> "Exception"]
    ELSE [status |-> status, exc |-> "none"]

\* solid.py Problem #2, method resolution of close(); Task.close is the same
\* self.status = 'CLOSED' as in talk.py
CloseSolidP2(cls, status) ==
    IF cls = "ProjectTask" THEN ProjectTaskCloseSolid(status) ELSE TaskCloseP2(status)

\* Solution #2, can_close(): Task returns True, ProjectTask overrides it
CanClose(cls, status) ==
    IF cls = "ProjectTask" THEN status = "STARTED" ELSE TRUE

\* Solution #2, Task.close (inherited by every class): the raise is not in an
\* else branch, so it runs after the if statement whatever can_close() said
CloseS2(cls, status) ==
    LET s1 == IF CanClose(cls, status) THEN "CLOSED" ELSE status
    IN  [status |-> s1, exc |-> "Exception"]

nonTask == <<snippet, rect, stack, rcall, calcCall, devices, printCall,
             shapes, loopP3, loopS3,
             point, pointCall,
             copy,
             chargeCall>>

TaskInit ==
    /\ task = [version |-> "Problem2", cls |-> "Task", status |-> "None"]
    /\ taskCall = [done |-> FALSE, pre |-> "None", exc |-> "none"]

\* the client constructs a task of one of the snippet's classes
NewTask(v, c) ==
    /\ snippet = "LSP2"
    /\ task' = [version |-> v, cls |-> c, status |-> "None"]
    /\ taskCall' = [done |-> FALSE, pre |-> "None", exc |-> "none"]
    /\ UNCHANGED nonTask

\* the client assigns task.status
SetStatus(s) ==
    /\ snippet = "LSP2"
    /\ task' = [task EXCEPT !.status = s]
    /\ taskCall' = [done |-> FALSE, pre |-> "None", exc |-> "none"]
    /\ UNCHANGED nonTask

\* the client calls task.close()
Close ==
    /\ snippet = "LSP2"
    /\ LET r == CASE task.version = "Problem2" -> CloseP2(task.cls, task.status)
                  [] task.version = "Problem2Solid" ->
                         CloseSolidP2(task.cls, task.status)
                  [] OTHER -> CloseS2(task.cls, task.status)
       IN  /\ task' = [task EXCEPT !.status = r.status]
           /\ taskCall' = [done |-> TRUE, pre |-> task.status, exc |-> r.exc]
    /\ UNCHANGED nonTask

(***************************************************************************)
(* LSP #1: Rectangle / Square / g, talk.py 273-298                         *)
(***************************************************************************)

RectClasses == {"Rectangle", "Square"}

\* width = None, height = None on the class
None == 0

\* the arguments g passes: rectangle.set_width(5), rectangle.set_height(3)
GWidth == 5

GHeight == 3

\* the values a client passes to the setters
MaxSide == 5

Sides == 1..MaxSide

Setters == {"set_width", "set_height"}

\* the names bound at module level when the LSP #1 snippet runs
ModuleNames == {"Rectangle", "Square", "g"}

\* LOAD_GLOBAL of a bare name: found at module level, or NameError
LookupGlobal(name) == IF name \in ModuleNames THEN "found" ELSE "NameError"

\* the bare name a Square setter calls after its assignment
BareCallee(fn) == IF fn = "set_width" THEN "set_height" ELSE "set_width"

\* self.width = w in set_width, self.height = h in set_height
AssignSide(r, fn, v) ==
    IF fn = "set_width" THEN [r EXCEPT !.width = v] ELSE [r EXCEPT !.height = v]

Frame(fn, arg) == [fn |-> fn, arg |-> arg, pc |-> 1]

Top == stack[Len(stack)]

Pop == SubSeq(stack, 1, Len(stack) - 1)

SetTopPc(p) == [stack EXCEPT ![Len(stack)].pc = p]

nonRect == <<snippet, task, taskCall, calcCall, devices, printCall, shapes,
             loopP3, loopS3,
             point, pointCall,
             copy,
             chargeCall>>

IdleRectCall == [fn |-> "none", arg |-> None, done |-> FALSE, exc |-> "none"]

RectInit ==
    /\ rect = [cls |-> "Rectangle", width |-> None, height |-> None]
    /\ stack = <<>>
    /\ rcall = IdleRectCall

\* the client constructs Rectangle() or Square()
NewRect(c) ==
    /\ snippet = "LSP1"
    /\ stack = <<>>
    /\ rect' = [cls |-> c, width |-> None, height |-> None]
    /\ rcall' = IdleRectCall
    /\ UNCHANGED stack
    /\ UNCHANGED nonRect

\* the client calls rect.set_width(v) or rect.set_height(v)
CallSetter(fn, v) ==
    /\ snippet = "LSP1"
    /\ stack = <<>>
    /\ stack' = <<Frame(fn, v)>>
    /\ rcall' = [fn |-> fn, arg |-> v, done |-> FALSE, exc |-> "none"]
    /\ UNCHANGED rect
    /\ UNCHANGED nonRect

\* the client calls g(rect)
CallG ==
    /\ snippet = "LSP1"
    /\ stack = <<>>
    /\ stack' = <<Frame("g", None)>>
    /\ rcall' = [fn |-> "g", arg |-> None, done |-> FALSE, exc |-> "none"]
    /\ UNCHANGED rect
    /\ UNCHANGED nonRect

\* first statement of a setter of either class: the assignment to self
SetterAssign ==
    /\ snippet = "LSP1"
    /\ stack # <<>>
    /\ Top.fn \in Setters
    /\ Top.pc = 1
    /\ rect' = AssignSide(rect, Top.fn, Top.arg)
    /\ stack' = SetTopPc(2)
    /\ UNCHANGED rcall
    /\ UNCHANGED nonRect

\* second statement of a Square setter: set_height(w) / set_width(h), a call
\* of a bare global name.  The name is not bound at module level (the setters
\* are attributes of the classes), so the lookup raises NameError, which
\* unwinds every frame up to the client.
SquareBareCall ==
    /\ snippet = "LSP1"
    /\ stack # <<>>
    /\ Top.fn \in Setters
    /\ Top.pc = 2
    /\ rect.cls = "Square"
    /\ LookupGlobal(BareCallee(Top.fn)) = "NameError"
    /\ stack' = <<>>
    /\ rcall' = [rcall EXCEPT !.done = TRUE, !.exc = "NameError"]
    /\ UNCHANGED rect
    /\ UNCHANGED nonRect

\* g: rectangle.set_width(5) then rectangle.set_height(3), dispatched on the
\* object's class
GCall ==
    /\ snippet = "LSP1"
    /\ stack # <<>>
    /\ Top.fn = "g"
    /\ Top.pc \in {1, 2}
    /\ stack' = Append(SetTopPc(Top.pc + 1),
                       IF Top.pc = 1 THEN Frame("set_width", GWidth)
                                     ELSE Frame("set_height", GHeight))
    /\ UNCHANGED <<rect, rcall>>
    /\ UNCHANGED nonRect

\* a frame with no statement left returns None to its caller
Return ==
    /\ snippet = "LSP1"
    /\ stack # <<>>
    /\ \/ Top.fn \in Setters /\ Top.pc = 2 /\ rect.cls = "Rectangle"
       \/ Top.fn = "g" /\ Top.pc = 3
    /\ stack' = Pop
    /\ rcall' = IF Len(stack) = 1 THEN [rcall EXCEPT !.done = TRUE] ELSE rcall
    /\ UNCHANGED rect
    /\ UNCHANGED nonRect

(***************************************************************************)
(* OCP #1: Operation / Addition / Subtraction / BasicCalculator,           *)
(* talk.py 108-145 and solid.py 60-97 (the same text in both files)        *)
(***************************************************************************)

SourceFiles == {"solid.py", "talk.py"}

OpClasses == {"Operation", "Addition", "Subtraction"}

\* the operands a client constructs an Operation with
MaxOperand == 2

Operands == (0 - MaxOperand)..MaxOperand

\* Problem #1, BasicCalculator.calculate: the isinstance chain; with no branch
\* taken the method falls off its end and returns None (ret = {})
CalculateP1(op) ==
    IF op.cls = "Addition" THEN [ret |-> {op.x + op.y}, exc |-> "none"]
    ELSE IF op.cls = "Subtraction" THEN [ret |-> {op.x - op.y}, exc |-> "none"]
    ELSE [ret |-> {}, exc |-> "none"]

\* Solution #1, the methods each class defines: def peform_operation(self)
MethodsS1(cls) ==
    IF cls \in {"Addition", "Subtraction"} THEN {"peform_operation"} ELSE {}

\* Solution #1, the body of the method called name on op
InvokeS1(op, name) ==
    CASE name = "peform_operation" /\ op.cls = "Addition" -> op.x + op.y
      [] name = "peform_operation" /\ op.cls = "Subtraction" -> op.x - op.y

\* Solution #1, BasicCalculator.calculate: return operation.perform_operation()
\* an attribute the object does not have raises AttributeError
CalculateS1(op) ==
    IF "perform_operation" \in MethodsS1(op.cls) \cup {"x", "y"}
    THEN [ret |-> {InvokeS1(op, "perform_operation")}, exc |-> "none"]
    ELSE [ret |-> {}, exc |-> "AttributeError"]

nonCalc == <<snippet, task, taskCall, rect, stack, rcall, devices, printCall,
             shapes, loopP3, loopS3,
             point, pointCall,
             copy,
             chargeCall>>

CalcInit ==
    calcCall = [file |-> "talk.py", version |-> "Problem1", done |-> FALSE,
                op |-> [cls |-> "Operation", x |-> 0, y |-> 0],
                ret |-> {}, exc |-> "none"]

\* the client builds cls(x, y) and calls BasicCalculator().calculate on it
Calculate(file, version, cls, x, y) ==
    /\ snippet = "OCP1"
    /\ LET op == [cls |-> cls, x |-> x, y |-> y]
           r == IF version = "Problem1" THEN CalculateP1(op) ELSE CalculateS1(op)
       IN  calcCall' = [file |-> file, version |-> version, done |-> TRUE,
                        op |-> op, ret |-> r.ret, exc |-> r.exc]
    /\ UNCHANGED nonCalc

(***************************************************************************)
(* OCP #2: Printer / ColorPrinter / BWPrinter / ReportGenerator,           *)
(* talk.py 147-189 and solid.py 99-141                                     *)
(***************************************************************************)

PrinterClasses == {"Printer", "ColorPrinter", "BWPrinter"}

FileNames == {"a.txt", "b.txt"}

InkTypes == {"BLACK", "COLOR", "SEPIA"}

\* a device accepts a job only while it holds fewer than this many
MaxJobs == 2

\* the attributes of a printer class and of its instances: def print(...)
PrinterAttrs(cls) == {"print"}

\* Printer.print: pass; ColorPrinter.print: HPLASER.print_file(filename);
\* BWPrinter.print: HPINKJET.print_file(filename)
PrinterPrint(cls, dev, filename) ==
    CASE cls = "ColorPrinter" -> [dev EXCEPT !.HPLASER = Append(@, filename)]
      [] cls = "BWPrinter" -> [dev EXCEPT !.HPINKJET = Append(@, filename)]
      [] OTHER -> dev

\* cls.name(filename) or instance.name(filename): the attribute is looked up
\* first, and a missing attribute raises AttributeError before anything runs
CallPrinterAttr(cls, name, dev, filename) ==
    IF name \in PrinterAttrs(cls)
    THEN [dev |-> PrinterPrint(cls, dev, filename), exc |-> "none"]
    ELSE [dev |-> dev, exc |-> "AttributeError"]

\* the number of arguments ReportGenerator.print takes besides self:
\* (filename, ink_type) in Problem #2 of both files and in Solution #2 of
\* solid.py, (filename) in Solution #2 of talk.py
PrintArity(file, version) ==
    IF version = "Solution2" /\ file = "talk.py" THEN 1 ELSE 2

\* Problem #2, ReportGenerator.print, with the second branch
\* "else ink_type == 'COLOR':" read as the elif it stands for
ReportGeneratorPrintP2(dev, filename, ink_type) ==
    IF ink_type = "BLACK" THEN CallPrinterAttr("BWPrinter", "print_file", dev, filename)
    ELSE IF ink_type = "COLOR"
         THEN CallPrinterAttr("ColorPrinter", "print_file", dev, filename)
         ELSE [dev |-> dev, exc |-> "BaseException"]

\* Solution #2, ReportGenerator.print: self.printer.print_file(filename)
ReportGeneratorPrintS2(printer, dev, filename) ==
    CallPrinterAttr(printer, "print_file", dev, filename)

nonPrint == <<snippet, task, taskCall, rect, stack, rcall, calcCall, shapes,
              loopP3, loopS3,
              point, pointCall,
              copy,
              chargeCall>>

IdlePrintCall ==
    [file |-> "talk.py", version |-> "Problem2", printer |-> "none",
     filename |-> "a.txt", ink |-> "absent", done |-> FALSE,
     pre |-> [HPLASER |-> <<>>, HPINKJET |-> <<>>], exc |-> "none"]

PrintInit ==
    /\ devices = [HPLASER |-> <<>>, HPINKJET |-> <<>>]
    /\ printCall = IdlePrintCall

\* the client calls cls().print(filename) on a printer of its own
DirectPrint(cls, filename) ==
    /\ snippet = "OCP2"
    /\ Len(devices.HPLASER) < MaxJobs
    /\ Len(devices.HPINKJET) < MaxJobs
    /\ devices' = CallPrinterAttr(cls, "print", devices, filename).dev
    /\ printCall' = IdlePrintCall
    /\ UNCHANGED nonPrint

\* the client calls ReportGenerator().print(filename[, ink_type]) of
\* Problem #2; ink = "absent" is the call with one argument
ReportPrintP2(file, filename, ink) ==
    /\ snippet = "OCP2"
    /\ Len(devices.HPLASER) < MaxJobs
    /\ Len(devices.HPINKJET) < MaxJobs
    /\ LET nargs == IF ink = "absent" THEN 1 ELSE 2
           r == IF nargs # PrintArity(file, "Problem2")
                THEN [dev |-> devices, exc |-> "TypeError"]
                ELSE ReportGeneratorPrintP2(devices, filename, ink)
       IN  /\ devices' = r.dev
           /\ printCall' = [file |-> file, version |-> "Problem2",
                            printer |-> "none", filename |-> filename,
                            ink |-> ink, done |-> TRUE, pre |-> devices,
                            exc |-> r.exc]
    /\ UNCHANGED nonPrint

\* the client calls ReportGenerator(printer).print(filename[, ink_type]) of
\* Solution #2, printer being an instance of cls
ReportPrintS2(file, cls, filename, ink) ==
    /\ snippet = "OCP2"
    /\ Len(devices.HPLASER) < MaxJobs
    /\ Len(devices.HPINKJET) < MaxJobs
    /\ LET nargs == IF ink = "absent" THEN 1 ELSE 2
           r == IF nargs # PrintArity(file, "Solution2")
                THEN [dev |-> devices, exc |-> "TypeError"]
                ELSE ReportGeneratorPrintS2(cls, devices, filename)
       IN  /\ devices' = r.dev
           /\ printCall' = [file |-> file, version |-> "Solution2",
                            printer |-> cls, filename |-> filename,
                            ink |-> ink, done |-> TRUE, pre |-> devices,
                            exc |-> r.exc]
    /\ UNCHANGED nonPrint

(***************************************************************************)
(* OCP #3: Circle / Square / Shape / draw_all_shapes, talk.py 191-220      *)
(***************************************************************************)

\* the classes of the objects a list holds; "Shape" is an instance of the
\* base class of Solution #3, neither a Circle nor a Square
ShapeClasses == {"Circle", "Square", "Shape"}

\* the longest list a client passes
MaxShapes == 3

ShapeLists == UNION {[1..n -> ShapeClasses] : n \in 0..MaxShapes}

\* a call received by draw_square, draw_circle or draw: the k-th object of
\* the list, of class cls
DrawEvent(fn, k, cls) == [fn |-> fn, shape |-> k, cls |-> cls]

\* Solution #3 loop body with the new call put in front of the earlier ones
DrawS3Front(log, k, cls) == <<DrawEvent("draw", k, cls)>> \o log

\* Problem #3, loop body: two independent isinstance tests
DrawP3(log, k, cls) ==
    LET l1 == IF cls = "Square" THEN Append(log, DrawEvent("draw_square", k, cls))
                                ELSE log
    IN  IF cls = "Circle" THEN Append(l1, DrawEvent("draw_circle", k, cls)) ELSE l1

\* Solution #3, loop body: shape.draw(), defined on Shape and inherited
DrawS3(log, k, cls) == Append(log, DrawEvent("draw", k, cls))

nonShape == <<snippet, task, taskCall, rect, stack, rcall, calcCall, devices,
              printCall,
              point, pointCall,
              copy,
              chargeCall>>

ShapeInit ==
    /\ shapes = <<>>
    /\ loopP3 = [i |-> 0, log |-> <<>>]
    /\ loopS3 = [i |-> 0, log |-> <<>>]

\* the client builds a list and calls both draw_all_shapes on it
NewShapes(l) ==
    /\ snippet = "OCP3"
    /\ shapes' = l
    /\ loopP3' = [i |-> 0, log |-> <<>>]
    /\ loopS3' = [i |-> 0, log |-> <<>>]
    /\ UNCHANGED nonShape

\* one iteration of Problem #3's for loop
IterP3 ==
    /\ snippet = "OCP3"
    /\ loopP3.i < Len(shapes)
    /\ loopP3' = [i |-> loopP3.i + 1,
                  log |-> DrawP3(loopP3.log, loopP3.i + 1, shapes[loopP3.i + 1])]
    /\ UNCHANGED <<shapes, loopS3>>
    /\ UNCHANGED nonShape

\* one iteration of Solution #3's for loop
IterS3 ==
    /\ snippet = "OCP3"
    /\ loopS3.i < Len(shapes)
    /\ loopS3' = [i |-> loopS3.i + 1,
                  log |-> DrawS3(loopS3.log, loopS3.i + 1, shapes[loopS3.i + 1])]
    /\ UNCHANGED <<shapes, loopP3>>
    /\ UNCHANGED nonShape

(***************************************************************************)
(* LSP #3: ImmutablePoint / MutablePoint / Point, talk.py 372-403          *)
(***************************************************************************)

PointVersions == {"Problem3", "Solution3"}

\* the classes each snippet defines
PointClasses(version) ==
    IF version = "Problem3" THEN {"ImmutablePoint", "MutablePoint"}
    ELSE {"Point", "ImmutablePoint", "MutablePoint"}

\* the coordinates a client passes
MaxCoord == 2

Coords == 0..MaxCoord

PointSetters == {"set_x", "set_y"}

\* Solution #3 with MutablePoint still deriving from ImmutablePoint
PointBaseUnrefactored(version, cls) ==
    CASE cls = "MutablePoint" -> "ImmutablePoint"
      [] version = "Solution3" /\ cls = "ImmutablePoint" -> "Point"
      [] OTHER -> "object"

\* the base class in each class statement: Problem #3 has
\* MutablePoint(ImmutablePoint); Solution #3 has ImmutablePoint(Point) and
\* MutablePoint(Point)
PointBase(version, cls) ==
    CASE version = "Problem3" /\ cls = "MutablePoint" -> "ImmutablePoint"
      [] version = "Solution3" /\ cls \in {"ImmutablePoint", "MutablePoint"} -> "Point"
      [] OTHER -> "object"

\* the classes of cls's method resolution order, cls first, object left out
PointMro(version, cls) ==
    LET b1 == PointBase(version, cls)
        b2 == IF b1 = "object" THEN "object" ELSE PointBase(version, b1)
    IN  <<cls>> \o (IF b1 = "object" THEN <<>> ELSE <<b1>>)
                \o (IF b2 = "object" THEN <<>> ELSE <<b2>>)

\* issubclass(cls, base)
IsSubclass(version, cls, base) ==
    \E k \in DOMAIN PointMro(version, cls) : PointMro(version, cls)[k] = base

\* the setters defined on every point class
PointOwnMethodsOnBase(version, cls) == PointSetters

\* the methods a class statement defines besides __init__: set_x and set_y,
\* on MutablePoint only, in both snippets
PointOwnMethods(version, cls) ==
    IF cls = "MutablePoint" THEN PointSetters ELSE {}

\* attribute lookup of a method on an instance of cls, along the order above
PointHasMethod(version, cls, name) ==
    \E k \in DOMAIN PointMro(version, cls) :
        name \in PointOwnMethods(version, PointMro(version, cls)[k])

\* set_x: self.x = x; set_y: self.y = y
PointAssign(pt, fn, v) ==
    IF fn = "set_x" THEN [pt EXCEPT !.x = v] ELSE [pt EXCEPT !.y = v]

nonPoint == <<snippet, task, taskCall, rect, stack, rcall, calcCall, devices,
              printCall, shapes, loopP3, loopS3, copy,
              chargeCall>>

IdlePointCall == [fn |-> "none", arg |-> 0, done |-> FALSE, exc |-> "none"]

PointInit ==
    /\ point = [version |-> "Problem3", cls |-> "ImmutablePoint",
                x |-> 0, y |-> 0, x0 |-> 0, y0 |-> 0]
    /\ pointCall = IdlePointCall

\* the client constructs cls(x, y): __init__ stores x and y; x0 and y0 keep
\* the values given at construction
NewPoint(version, cls, x, y) ==
    /\ snippet = "LSP3"
    /\ cls \in PointClasses(version)
    /\ point' = [version |-> version, cls |-> cls, x |-> x, y |-> y,
                 x0 |-> x, y0 |-> y]
    /\ pointCall' = IdlePointCall
    /\ UNCHANGED nonPoint

\* the client calls point.set_x(v) or point.set_y(v); a class without the
\* method raises AttributeError and nothing is assigned
CallPointSetter(fn, v) ==
    /\ snippet = "LSP3"
    /\ IF PointHasMethod(point.version, point.cls, fn)
       THEN /\ point' = PointAssign(point, fn, v)
            /\ pointCall' = [fn |-> fn, arg |-> v, done |-> TRUE, exc |-> "none"]
       ELSE /\ point' = point
            /\ pointCall' = [fn |-> fn, arg |-> v, done |-> TRUE,
                             exc |-> "AttributeError"]
    /\ UNCHANGED nonPoint

(***************************************************************************)
(* DIP #1: CopyProgram.copy of Solution #1, talk.py 502-521 and            *)
(* solid.py 292-309 (the same method in both files)                        *)
(***************************************************************************)

\* what a client passes as reader: ReadKeyboard, the context manager of
\* Problem #1 (talk.py 496), or the snippet's own class KeyboardReader
Readers == {"ReadKeyboard", "KeyboardReader"}

\* what a client passes as writer: WritePrinter and WriteDisk, the callables of
\* Problem #1 (talk.py 498-500), or the snippet's own class PrinterWriter
Writers == {"WritePrinter", "WriteDisk", "PrinterWriter"}

\* the values a reader's __enter__ can hand to the with statement
Chars == {"a", "b"}

\* the attributes of reader(): class KeyboardReader(object): pass has none
ReaderAttrs(reader) ==
    IF reader = "KeyboardReader" THEN {} ELSE {"__enter__", "__exit__"}

\* the with statement needs both special methods
SupportsWith(reader) == {"__enter__", "__exit__"} \subseteq ReaderAttrs(reader)

\* the outcomes of writer(c): class PrinterWriter(object): pass takes no
\* argument, so PrinterWriter(c) raises TypeError; an environment writer
\* returns or fails
WriterOutcomes(writer) ==
    IF writer = "PrinterWriter" THEN {"TypeError"} ELSE {"none", "OSError"}

\* a with statement that leaves without __exit__ when its body raised
AfterBodySkipExitOnRaise(outcome) == IF outcome = "none" THEN "exit" ELSE "done"

\* where control goes when the body of the with statement is over: to
\* __exit__, whether the body returned or raised
AfterBody(outcome) == "exit"

CopyEvent(ev, who, arg) == [ev |-> ev, who |-> who, arg |-> arg]

nonCopy == <<snippet, task, taskCall, rect, stack, rcall, calcCall, devices,
             printCall, shapes, loopP3, loopS3, point, pointCall,
             chargeCall>>

CopyInit ==
    copy = [file |-> "talk.py", reader |-> "ReadKeyboard",
            writer |-> "WritePrinter", pc |-> "idle", c |-> "none",
            trace |-> <<>>, exc |-> "none"]

\* the client calls CopyProgram().copy(reader, writer)
CallCopy(file, reader, writer) ==
    /\ snippet = "DIP1"
    /\ copy.pc \in {"idle", "done"}
    /\ copy' = [file |-> file, reader |-> reader, writer |-> writer,
                pc |-> "with", c |-> "none", trace |-> <<>>, exc |-> "none"]
    /\ UNCHANGED nonCopy

\* with reader() as c: the object supports the protocol, __enter__ runs and
\* its result is bound to c
WithEnter(ch) ==
    /\ snippet = "DIP1"
    /\ copy.pc = "with"
    /\ SupportsWith(copy.reader)
    /\ copy' = [copy EXCEPT !.pc = "body", !.c = ch,
                   !.trace = Append(@, CopyEvent("enter", copy.reader, "none"))]
    /\ UNCHANGED nonCopy

\* with reader() as c: the object lacks __enter__ / __exit__, and the
\* statement raises (AttributeError up to Python 3.10, TypeError from 3.11)
\* before anything is entered
WithNoProtocol(e) ==
    /\ snippet = "DIP1"
    /\ copy.pc = "with"
    /\ ~SupportsWith(copy.reader)
    /\ copy' = [copy EXCEPT !.pc = "done", !.exc = e]
    /\ UNCHANGED nonCopy

\* writer(c), the body of the with statement
WriterCall(outcome) ==
    /\ snippet = "DIP1"
    /\ copy.pc = "body"
    /\ outcome \in WriterOutcomes(copy.writer)
    /\ copy' = [copy EXCEPT !.pc = AfterBody(outcome), !.exc = outcome,
                   !.trace = Append(@, CopyEvent("writer", copy.writer, copy.c))]
    /\ UNCHANGED nonCopy

\* __exit__ of the reader's object; when the body raised, __exit__ decides
\* whether the exception goes on to the client (suppress = FALSE)
WithExit(suppress) ==
    /\ snippet = "DIP1"
    /\ copy.pc = "exit"
    /\ copy' = [copy EXCEPT !.pc = "done",
                   !.exc = IF suppress THEN "none" ELSE @,
                   !.trace = Append(@, CopyEvent("exit", copy.reader, "none"))]
    /\ UNCHANGED nonCopy

(***************************************************************************)
(* ISP #1: Charger / AndroidCharger / AppleCharger of Solution #1,         *)
(* talk.py 426-442 and solid.py 219-235                                    *)
(***************************************************************************)

ChargerClasses == {"Charger", "AndroidCharger", "AppleCharger"}

ChargerOps == {"connect", "disconnect", "charge"}

\* the base in each class statement: talk.py has AndroidCharger(Charger) and
\* AppleCharger(Charger), solid.py has AndroidCharger(object) and
\* AppleCharger(object)
ChargerBase(file, cls) ==
    IF cls \in {"AndroidCharger", "AppleCharger"} /\ file = "talk.py"
    THEN "Charger" ELSE "object"

\* the methods each class statement defines
ChargerOwnMethods(cls) ==
    IF cls = "Charger" THEN {"connect", "disconnect", "charge"} ELSE {"connect"}

\* attribute lookup of op on an instance of cls: the class that defines it,
\* the object's own class first, or "none"
ChargerResolve(file, cls, op) ==
    IF op \in ChargerOwnMethods(cls) THEN cls
    ELSE IF ChargerBase(file, cls) # "object"
            /\ op \in ChargerOwnMethods(ChargerBase(file, cls))
         THEN ChargerBase(file, cls)
         ELSE "none"

\* the body of a method of class def: AndroidCharger.connect is
\* IOUSB2.connect(phone), AppleCharger.connect is IOAPPLE.connect(phone),
\* every method of Charger is pass
ChargerBody(def, op) ==
    CASE def = "AndroidCharger" /\ op = "connect" ->
             <<[port |-> "IOUSB2", arg |-> "phone"]>>
      [] def = "AppleCharger" /\ op = "connect" ->
             <<[port |-> "IOAPPLE", arg |-> "phone"]>>
      [] OTHER -> <<>>

nonCharge == <<snippet, task, taskCall, rect, stack, rcall, calcCall, devices,
               printCall, shapes, loopP3, loopS3, point, pointCall, copy>>

ChargeInit ==
    chargeCall = [file |-> "talk.py", cls |-> "Charger", op |-> "none",
                  done |-> FALSE, exc |-> "none", events |-> <<>>]

\* the client calls cls().op() with the classes of one of the two files
CallCharger(file, cls, op) ==
    /\ snippet = "ISP1"
    /\ LET def == ChargerResolve(file, cls, op)
       IN  chargeCall' =
               IF def = "none"
               THEN [file |-> file, cls |-> cls, op |-> op, done |-> TRUE,
                     exc |-> "AttributeError", events |-> <<>>]
               ELSE [file |-> file, cls |-> cls, op |-> op, done |-> TRUE,
                     exc |-> "none", events |-> ChargerBody(def, op)]
    /\ UNCHANGED nonCharge

Init ==
    /\ snippet \in Snippets
    /\ TaskInit
    /\ RectInit
    /\ CalcInit
    /\ PrintInit
    /\ ShapeInit
    /\ PointInit
    /\ CopyInit
    /\ ChargeInit

Next ==
    \/ \E v \in TaskVersions, c \in TaskClasses : NewTask(v, c)
    \/ \E s \in StatusValues : SetStatus(s)
    \/ Close
    \/ \E c \in RectClasses : NewRect(c)
    \/ \E fn \in Setters, v \in Sides : CallSetter(fn, v)
    \/ CallG
    \/ SetterAssign
    \/ SquareBareCall
    \/ GCall
    \/ Return
    \/ \E f \in SourceFiles, v \in {"Problem1", "Solution1"}, c \in OpClasses,
          x \in Operands, y \in Operands : Calculate(f, v, c, x, y)
    \/ \E c \in PrinterClasses, f \in FileNames : DirectPrint(c, f)
    \/ \E sf \in SourceFiles, f \in FileNames, ink \in InkTypes \cup {"absent"} :
          ReportPrintP2(sf, f, ink)
    \/ \E sf \in SourceFiles, c \in PrinterClasses, f \in FileNames,
          ink \in InkTypes \cup {"absent"} : ReportPrintS2(sf, c, f, ink)
    \/ \E l \in ShapeLists : NewShapes(l)
    \/ IterP3
    \/ IterS3
    \/ \E v \in PointVersions, c \in {"Point", "ImmutablePoint", "MutablePoint"},
          x \in Coords, y \in Coords : NewPoint(v, c, x, y)
    \/ \E fn \in PointSetters, v \in Coords : CallPointSetter(fn, v)
    \/ \E f \in SourceFiles, r \in Readers, w \in Writers : CallCopy(f, r, w)
    \/ \E ch \in Chars : WithEnter(ch)
    \/ \E e \in {"AttributeError", "TypeError"} : WithNoProtocol(e)
    \/ \E o \in {"none", "OSError", "TypeError"} : WriterCall(o)
    \/ \E b \in BOOLEAN : WithExit(b)
    \/ \E f \in SourceFiles, c \in ChargerClasses, op \in ChargerOps :
          CallCharger(f, c, op)

Spec == Init /\ [][Next]_vars

(***************************************************************************)
(* The claims                                                              *)
(***************************************************************************)

\* C1: in LSP Solution #2, close() on a task whose can_close() is True sets
\* status to 'CLOSED' and returns normally; it raises Exception only when
\* can_close() is False, and then leaves status unchanged.
C1_CloseRaisesOnlyWhenCannotClose ==
    (taskCall.done /\ task.version = "Solution2") =>
        IF CanClose(task.cls, taskCall.pre)
        THEN taskCall.exc = "none" /\ task.status = "CLOSED"
        ELSE taskCall.exc = "Exception" /\ task.status = taskCall.pre

\* C2: the refactoring of LSP Problem #2 into Solution #2 preserves
\* ProjectTask.close(): for every initial status the Solution #2 call raises
\* exactly when the Problem #2 call does, that is exactly when the status is
\* 'STARTED', and otherwise both end with status 'CLOSED'.
C2_ProjectTaskRefactoringPreserved ==
    (taskCall.done /\ task.version = "Solution2" /\ task.cls = "ProjectTask") =>
        LET p == CloseP2("ProjectTask", taskCall.pre)
        IN  /\ (taskCall.exc # "none") <=> (p.exc # "none")
            /\ (taskCall.exc # "none") <=> (taskCall.pre = "STARTED")
            /\ (taskCall.pre # "STARTED") =>
                   (task.status = "CLOSED" /\ p.status = "CLOSED")

\* C3: in LSP Problem #2, close() of a Task or BasicTask never raises and ends
\* with status 'CLOSED' whatever the status was; close() of a ProjectTask
\* raises Exception and leaves the status 'STARTED' when it was 'STARTED',
\* and otherwise ends with status 'CLOSED' without raising.
C3_Problem2Close ==
    (taskCall.done /\ task.version = "Problem2") =>
        IF task.cls = "ProjectTask" /\ taskCall.pre = "STARTED"
        THEN taskCall.exc = "Exception" /\ task.status = "STARTED"
        ELSE taskCall.exc = "none" /\ task.status = "CLOSED"

\* C3 witness: a ProjectTask refused to close, and (second conjunct aside) the
\* state is one after a close() call of Problem #2
C3_Witness ==
    /\ taskCall.done
    /\ task.version = "Problem2"
    /\ task.cls = "ProjectTask"
    /\ taskCall.pre = "STARTED"
    /\ taskCall.exc = "Exception"

\* C4: a Square has width = height = v after every finished call of
\* set_width(v) or set_height(v).
C4_SquareKeepsSidesEqual ==
    (rect.cls = "Square" /\ rcall.done /\ rcall.fn \in Setters) =>
        (rect.width = rcall.arg /\ rect.height = rcall.arg)

\* C5: g ends with width = 5 and height = 3 on a Rectangle, and ends normally
\* with width = height = 3 on a Square.
C5_GOnRectangleAndSquare ==
    (rcall.done /\ rcall.fn = "g") =>
        /\ rcall.exc = "none"
        /\ IF rect.cls = "Rectangle"
           THEN rect.width = GWidth /\ rect.height = GHeight
           ELSE rect.width = GHeight /\ rect.height = GHeight

\* C6: every call of a Square setter terminates by returning: while the call
\* runs a step of it is enabled, and once it is over it has returned.
C6_SquareSetterReturns ==
    (rect.cls = "Square" /\ rcall.fn \in Setters) =>
        IF rcall.done
        THEN rcall.exc = "none"
        ELSE ENABLED (SetterAssign \/ SquareBareCall \/ Return)

\* C7: in OCP Solution #1, calculate() returns for every Addition(x, y) and
\* Subtraction(x, y) what Problem #1's calculate() returns: x + y and x - y.
C7_CalculateS1EqualsP1 ==
    (calcCall.done /\ calcCall.version = "Solution1"
        /\ calcCall.op.cls \in {"Addition", "Subtraction"}) =>
        /\ calcCall.exc = "none"
        /\ calcCall.ret = CalculateP1(calcCall.op).ret
        /\ calcCall.ret = {IF calcCall.op.cls = "Addition"
                           THEN calcCall.op.x + calcCall.op.y
                           ELSE calcCall.op.x - calcCall.op.y}

\* C8: in OCP Problem #2, print(filename, ink_type) sends the file to the
\* black-and-white printer for 'BLACK', to the colour printer for 'COLOR',
\* and for any other ink_type raises BaseException and prints nothing.
C8_ReportP2Dispatches ==
    (printCall.done /\ printCall.version = "Problem2" /\ printCall.ink # "absent") =>
        CASE printCall.ink = "BLACK" ->
                 /\ printCall.exc = "none"
                 /\ devices = [printCall.pre EXCEPT
                                  !.HPINKJET = Append(@, printCall.filename)]
          [] printCall.ink = "COLOR" ->
                 /\ printCall.exc = "none"
                 /\ devices = [printCall.pre EXCEPT
                                  !.HPLASER = Append(@, printCall.filename)]
          [] OTHER ->
                 /\ printCall.exc = "BaseException"
                 /\ devices = printCall.pre

\* C9: in OCP Solution #2, ReportGenerator(printer).print, called with the
\* arguments its signature takes, prints the file exactly once on the device
\* of the injected printer and on no other: HPLASER for a ColorPrinter,
\* HPINKJET for a BWPrinter.
C9_ReportS2Delegates ==
    (/\ printCall.done
     /\ printCall.version = "Solution2"
     /\ printCall.printer \in {"ColorPrinter", "BWPrinter"}
     /\ (IF printCall.ink = "absent" THEN 1 ELSE 2)
            = PrintArity(printCall.file, "Solution2")) =>
        /\ printCall.exc = "none"
        /\ devices = IF printCall.printer = "ColorPrinter"
                     THEN [printCall.pre EXCEPT
                              !.HPLASER = Append(@, printCall.filename)]
                     ELSE [printCall.pre EXCEPT
                              !.HPINKJET = Append(@, printCall.filename)]

\* the objects a log says were drawn, in the order of the calls
Drawn(log) == [k \in DOMAIN log |-> log[k].shape]

OnlyCirclesAndSquares == \A k \in DOMAIN shapes : shapes[k] \in {"Circle", "Square"}

\* C10: Solution #3's draw_all_shapes calls draw() on every element of the
\* list exactly once, in list order, and then stops (its loop can step while
\* elements are left and cannot once none is); on a list of Circles and
\* Squares the finished Problem #3 and Solution #3 loops have drawn the same
\* objects in the same order.
C10_DrawAllShapes ==
    /\ loopS3.i <= Len(shapes)
    /\ loopS3.log = [k \in 1..loopS3.i |-> DrawEvent("draw", k, shapes[k])]
    /\ (snippet = "OCP3") => ((loopS3.i < Len(shapes)) <=> ENABLED IterS3)
    /\ (/\ loopP3.i = Len(shapes)
        /\ loopS3.i = Len(shapes)
        /\ OnlyCirclesAndSquares) => Drawn(loopP3.log) = Drawn(loopS3.log)

\* C10 witness: both loops are over on a list that holds a Circle and a Square
\* and nothing else
C10_Witness ==
    /\ Len(shapes) >= 2
    /\ OnlyCirclesAndSquares
    /\ \E j, k \in DOMAIN shapes : shapes[j] = "Circle" /\ shapes[k] = "Square"
    /\ loopP3.i = Len(shapes)
    /\ loopS3.i = Len(shapes)
    /\ Len(loopS3.log) = Len(shapes)

\* C11: in LSP Solution #3, MutablePoint is not a subtype of ImmutablePoint,
\* and every object usable as an ImmutablePoint keeps the x and y it was
\* constructed with: it has no set_x or set_y, so such a call raises
\* AttributeError and assigns nothing.
C11_ImmutablePointKeepsCoordinates ==
    /\ ~IsSubclass("Solution3", "MutablePoint", "ImmutablePoint")
    /\ (point.version = "Solution3"
           /\ IsSubclass("Solution3", point.cls, "ImmutablePoint")) =>
          /\ point.x = point.x0
          /\ point.y = point.y0
          /\ pointCall.done => pointCall.exc = "AttributeError"

\* C11 witness: a setter was tried on a Solution #3 ImmutablePoint built with
\* other coordinates than the setter's argument
C11_Witness ==
    /\ point.version = "Solution3"
    /\ point.cls = "ImmutablePoint"
    /\ pointCall.done
    /\ pointCall.arg # point.x0
    /\ pointCall.arg # point.y0

\* C12: in LSP Problem #3, MutablePoint is a subtype of ImmutablePoint whose
\* set_x(v) / set_y(v) assign x / y, so it can hold coordinates other than
\* those given at construction, while an object that is only an
\* ImmutablePoint always holds the coordinates given at construction.
C12_MutablePointBreaksHistory ==
    /\ IsSubclass("Problem3", "MutablePoint", "ImmutablePoint")
    /\ (point.version = "Problem3" /\ point.cls = "ImmutablePoint") =>
          (point.x = point.x0 /\ point.y = point.y0)
    /\ (point.version = "Problem3" /\ point.cls = "MutablePoint"
           /\ pointCall.done) =>
          /\ pointCall.exc = "none"
          /\ pointCall.fn = "set_x" => point.x = pointCall.arg
          /\ pointCall.fn = "set_y" => point.y = pointCall.arg

\* C12 witness: a Problem #3 MutablePoint whose x is no longer the x given
\* at construction
C12_Witness ==
    /\ point.version = "Problem3"
    /\ point.cls = "MutablePoint"
    /\ IsSubclass(point.version, point.cls, "ImmutablePoint")
    /\ pointCall.done
    /\ pointCall.fn = "set_x"
    /\ point.x # point.x0

\* the three events of a complete copy, in order
FullCopyTrace ==
    <<CopyEvent("enter", copy.reader, "none"),
      CopyEvent("writer", copy.writer, copy.c),
      CopyEvent("exit", copy.reader, "none")>>

C14_ChargersProvideAllOperations ==
    (chargeCall.done /\ chargeCall.cls \in {"AndroidCharger", "AppleCharger"}) =>
        /\ chargeCall.exc = "none"
        /\ chargeCall.op = "connect" =>
               chargeCall.events =
                   <<[port |-> IF chargeCall.cls = "AndroidCharger"
                               THEN "IOUSB2" ELSE "IOAPPLE",
                      arg |-> "phone"]>>

\* C15: ProjectTask.close() of LSP Problem #2 has the same outcome in solid.py
\* and in talk.py for every initial status: both raise and leave the status
\* unchanged when it is 'STARTED', both end with status 'CLOSED' otherwise.
C15_ProjectTaskCloseSameInBothFiles ==
    (taskCall.done /\ task.cls = "ProjectTask"
        /\ task.version \in {"Problem2", "Problem2Solid"}) =>
        LET t  == ProjectTaskCloseP2(taskCall.pre)
            so == ProjectTaskCloseSolid(taskCall.pre)
        IN  /\ taskCall.exc = t.exc /\ task.status = t.status
            /\ taskCall.exc = so.exc /\ task.status = so.status
            /\ IF taskCall.pre = "STARTED"
               THEN taskCall.exc = "Exception" /\ task.status = "STARTED"
               ELSE taskCall.exc = "none" /\ task.status = "CLOSED"

====
